---- MODULE Spec2Model ----
(***************************************************************************)
(* Model of lib/bundle.py: bundle_file inlines the `lib` symbols an entry  *)
(* file imports into one self-contained text.                              *)
(*                                                                         *)
(* A source text is a sequence of physical lines; a line carries the       *)
(* statements written on it.  ast.parse is ParseBody: it yields the        *)
(* top-level statements with their line numbers.  A module name is the     *)
(* sequence of its dotted components (<<"lib","a">> is lib.a).             *)
(***************************************************************************)
EXTENDS Integers, Sequences, FiniteSets, TLC

\* ---- bounds of the model ------------------------------------------------
MaxBody == 2
MaxEntry == 2
MaxSyms == 3

\* ---- program constants ------------------------------------------------------
\* ArgumentParser.error exits the process with status 2
ParserErrorStatus == 2

\* ---- names the bounded inputs are built from ----------------------------
Names == {"f", "g", "h"}
None == ""
LibA == <<"lib", "a">>
LibB == <<"lib", "b">>
Sys == <<"sys">>
Future == <<"__future__">>
Modules == {LibA, LibB}

\* ---- statements and lines -----------------------------------------------
\* One top-level statement (an ast node).  t is the node type:
\*   "fromimport" (ast.ImportFrom, level 0), "import" (ast.Import),
\*   "def" (FunctionDef / AsyncFunctionDef / ClassDef), "assign" (Assign or
\*   AnnAssign with one Name target), "other" (any other statement).
\* loads are the Name nodes in Load context inside the node, dt those of them
\* in definition-time positions.
Stmt(t, mod, names, name, loads, dt) ==
    [t |-> t, mod |-> mod, names |-> names, name |-> name, loads |-> loads, dt |-> dt]

Alias(name, asname) == [name |-> name, asname |-> asname]
FromImport(mod, names) == Stmt("fromimport", mod, names, None, {}, {})
Import(mod) == Stmt("import", mod, <<>>, None, {}, {})
Def(name, loads, dt) == Stmt("def", <<>>, <<>>, name, loads, dt)
Assign(name, loads) == Stmt("assign", <<>>, <<>>, name, loads, loads)
Other == Stmt("other", <<>>, <<>>, None, {}, {})

\* One physical line of a text.  k is "code" (stmts are the statements on
\* the line), "shebang", "comment" (stmts is the commented-out code),
\* "blank", "region" (tag is the region name) or "endregion".
Line(k, stmts, tag) == [k |-> k, stmts |-> stmts, tag |-> tag]
Code(stmts) == Line("code", stmts, <<>>)
Shebang == Line("shebang", <<>>, <<>>)
Blank == Line("blank", <<>>, <<>>)

\* ---- small sequence helpers ----------------------------------------------
Range(s) == {s[i] : i \in 1..Len(s)}

RECURSIVE Concat(_)
Concat(ss) == IF ss = <<>> THEN <<>> ELSE Head(ss) \o Concat(Tail(ss))

SeqsUpTo(S, n) == UNION {[1..k -> S] : k \in 0..n}

IndexOf(s, x) == CHOOSE i \in 1..Len(s) : s[i] = x /\ \A j \in 1..(i - 1) : s[j] # x

Count(s, x) == Cardinality({i \in 1..Len(s) : s[i] = x})

\* ---- ast.parse -------------------------------------------------------------
\* tree.body: the statements of the code lines, each with its lineno.
RECURSIVE ParseFrom(_, _)
ParseFrom(text, i) ==
    IF i > Len(text) THEN <<>>
    ELSE (IF text[i].k = "code"
            THEN [j \in 1..Len(text[i].stmts) |-> [node |-> text[i].stmts[j], lineno |-> i]]
            ELSE <<>>) \o ParseFrom(text, i + 1)

ParseBody(text) == ParseFrom(text, 1)

\* ast.get_source_segment(source, node) of a one-line statement
SourceSegment(node) == Code(<<node>>)

_is_lib_module(module) == Len(module) >= 1 /\ module[1] = "lib"

\* ---- records of the program ---------------------------------------------
ImportedSymbol(module, name, asname) == [module |-> module, name |-> name, asname |-> asname]

SymbolDef(name, node, source, module, lineno) ==
    [name |-> name, node |-> node, source |-> source, module |-> module, lineno |-> lineno]

\* ---- per-module helpers ---------------------------------------------------
\* _extract_top_level_import_lines: the __future__ imports, and every other
\* Import / ImportFrom statement of the module, as source lines.
IsFutureImport(node) == node.t = "fromimport" /\ node.mod = Future
IsAnyImport(node) == node.t \in {"import", "fromimport"}

RECURSIVE SegmentsWhere(_, _, _)
SegmentsWhere(body, i, want) ==
    IF i > Len(body) THEN <<>>
    ELSE (IF ((want = "future") /\ IsFutureImport(body[i].node))
             \/ ((want = "other") /\ ~IsFutureImport(body[i].node) /\ IsAnyImport(body[i].node))
            THEN <<SourceSegment(body[i].node)>> ELSE <<>>)
         \o SegmentsWhere(body, i + 1, want)

_extract_top_level_import_lines(body) ==
    [future |-> SegmentsWhere(body, 1, "future"), other |-> SegmentsWhere(body, 1, "other")]

\* _build_symbol_table: name -> index in tree.body of the defining statement.
\* A def/class statement stores unconditionally (table[name] = node); an
\* assignment stores with setdefault.
TablePut(table, n, i) == [x \in (DOMAIN table) \cup {n} |-> IF x = n THEN i ELSE table[x]]

RECURSIVE TableFrom(_, _, _)
TableFrom(body, i, table) ==
    IF i > Len(body) THEN table
    ELSE LET node == body[i].node IN
         TableFrom(body, i + 1,
            IF node.t = "def" THEN TablePut(table, node.name, i)
            ELSE IF node.t = "assign" /\ node.name \notin DOMAIN table
                   THEN TablePut(table, node.name, i)
            ELSE table)

EmptyTable == [x \in {} |-> 0]

_build_symbol_table(body) == TableFrom(body, 1, EmptyTable)

\* as _name_loads_in, but walking only the definition-time positions
NameLoadsInHeaderOnly(node) == node.dt

_name_loads_in(node) == node.loads

_definition_time_deps(node) == IF node.t \in {"def", "assign"} THEN node.dt ELSE {}

_extract_symbol_def(module, name, entry) ==
    SymbolDef(name, entry.node, SourceSegment(entry.node), module, entry.lineno)

\* sorted(set of names): the names in ascending order.  Names are compared
\* as the strings "f" < "g" < "h" < "y".
NameRank(n) == CASE n = "f" -> 1 [] n = "g" -> 2 [] n = "h" -> 3 [] OTHER -> 4

RECURSIVE sorted(_)
sorted(S) ==
    IF S = {} THEN <<>>
    ELSE LET m == CHOOSE x \in S : \A y \in S : NameRank(x) <= NameRank(y)
         IN <<m>> \o sorted(S \ {m})

\* ---- entry-file helpers ---------------------------------------------------
IsLibFromImport(node) == node.t = "fromimport" /\ _is_lib_module(node.mod)

\* _parse_imported_symbols: [ok, imported]; ok is FALSE for `import *`.
HasStar(node) == \E k \in 1..Len(node.names) : node.names[k].name = "*"

RECURSIVE ImportedFrom(_, _)
ImportedFrom(body, i) ==
    IF i > Len(body) THEN <<>>
    ELSE LET node == body[i].node IN
         (IF IsLibFromImport(node)
            THEN [k \in 1..Len(node.names) |->
                    ImportedSymbol(node.mod, node.names[k].name, node.names[k].asname)]
            ELSE <<>>) \o ImportedFrom(body, i + 1)

_parse_imported_symbols(body) ==
    IF \E i \in 1..Len(body) : IsLibFromImport(body[i].node) /\ HasStar(body[i].node)
      THEN [ok |-> FALSE, imported |-> <<>>]
      ELSE [ok |-> TRUE, imported |-> ImportedFrom(body, 1)]

\* str.lstrip("\n") / str.rstrip("\n") on a text: drop the empty lines at
\* that end.
RECURSIVE lstrip(_)
lstrip(text) == IF text # <<>> /\ Head(text).k = "blank" THEN lstrip(Tail(text)) ELSE text

RECURSIVE rstrip(_)
rstrip(text) ==
    IF text # <<>> /\ text[Len(text)].k = "blank"
      THEN rstrip(SubSeq(text, 1, Len(text) - 1)) ELSE text

\* _strip_lib_imports: [ok, text]; ok is FALSE when an `import lib...`
\* statement is met.  The lines of every `from lib... import` and every
\* `from __future__ import` statement are removed.
HasLibImport(body) ==
    \E i \in 1..Len(body) : body[i].node.t = "import" /\ _is_lib_module(body[i].node.mod)

ToRemove(body) ==
    {body[i].lineno : i \in {j \in 1..Len(body) :
        IsLibFromImport(body[j].node) \/ IsFutureImport(body[j].node)}}

RECURSIVE KeepLines(_, _, _)
KeepLines(text, i, to_remove) ==
    IF i > Len(text) THEN <<>>
    ELSE (IF i \in to_remove THEN <<>> ELSE <<text[i]>>) \o KeepLines(text, i + 1, to_remove)

_strip_lib_imports(entry_source, entry_tree) ==
    IF HasLibImport(entry_tree)
      THEN [ok |-> FALSE, text |-> <<>>]
      ELSE [ok |-> TRUE, text |-> lstrip(KeepLines(entry_source, 1, ToRemove(entry_tree)))]

_comment_block(seg) == <<Line("comment", seg.stmts, <<>>)>>

_push_region(name) == Line("region", <<>>, name)
_pop_region == Line("endregion", <<>>, <<>>)

RECURSIVE DedupFrom(_, _)
DedupFrom(items, seen) ==
    IF items = <<>> THEN <<>>
    ELSE IF Head(items).k = "blank" \/ Head(items) \in seen
           THEN DedupFrom(Tail(items), seen)
    ELSE <<Head(items)>> \o DedupFrom(Tail(items), seen \cup {Head(items)})

_dedup_keep_order(items) == DedupFrom(items, {})

\* ---- _toposort_symbols: graph construction --------------------------------
Sid(s) == <<s.module, s.name, s.lineno>>

OrderOf(symbols) == [i \in 1..Len(symbols) |-> Sid(symbols[i])]

\* by_id[sid]: the last symbol of the list with that id
ById(symbols, sid) ==
    symbols[CHOOSE i \in 1..Len(symbols) :
                /\ Sid(symbols[i]) = sid
                /\ \A j \in (i + 1)..Len(symbols) : Sid(symbols[j]) # sid]

\* name_to_first_id: setdefault keeps the id of the first symbol of a name
NameToFirstId(symbols) ==
    [n \in {symbols[i].name : i \in 1..Len(symbols)} |->
        Sid(symbols[CHOOSE i \in 1..Len(symbols) :
                        /\ symbols[i].name = n
                        /\ \A j \in 1..(i - 1) : symbols[j].name # n])]

DepsOf(symbols, sid) ==
    LET first == NameToFirstId(symbols)
        names == _definition_time_deps(ById(symbols, sid).node) \cap DOMAIN first
    IN {first[d] : d \in names} \ {sid}

BuildDeps(symbols) == [sid \in Range(OrderOf(symbols)) |-> DepsOf(symbols, sid)]

\* as BuildIndeg, but counting the names of the header that some included
\* symbol bears, the symbol itself included
BuildIndegByName(symbols) ==
    [sid \in Range(OrderOf(symbols)) |->
        Cardinality(_definition_time_deps(ById(symbols, sid).node)
                      \cap DOMAIN NameToFirstId(symbols))]

BuildIndeg(symbols) ==
    [sid \in Range(OrderOf(symbols)) |-> Cardinality(DepsOf(symbols, sid))]

\* as ReadyOf, but last-included first
ReadyOfReversed(order_, indeg_) ==
    LET r == SelectSeq(order_, LAMBDA sid : indeg_[sid] = 0)
    IN [i \in 1..Len(r) |-> r[Len(r) + 1 - i]]

ReadyOf(order_, indeg_) == SelectSeq(order_, LAMBDA sid : indeg_[sid] = 0)

\* The `for other in order` loop of one emission of sid; k holds deps,
\* indeg, ready and ready_set.
RECURSIVE KahnInner(_, _, _, _, _)
KahnInner(order_, i, sid, out_, k) ==
    IF i > Len(order_) THEN k
    ELSE LET other == order_[i] IN
         IF sid \notin k.deps[other] THEN KahnInner(order_, i + 1, sid, out_, k)
         ELSE LET ind == k.indeg[other] - 1
                  add == ind = 0 /\ other \notin k.ready_set /\ other \notin Range(out_)
              IN KahnInner(order_, i + 1, sid, out_,
                    [deps |-> [k.deps EXCEPT ![other] = @ \ {sid}],
                     indeg |-> [k.indeg EXCEPT ![other] = ind],
                     ready |-> IF add THEN Append(k.ready, other) ELSE k.ready,
                     ready_set |-> IF add THEN k.ready_set \cup {other} ELSE k.ready_set])

\* as SortResult, but never reordering
SortResultUnsorted(symbols, out_) == symbols

\* as SortResult, but on a cycle emitting the sorted part first and the nodes
\* left over after it
SortResultPartial(symbols, out_) ==
    LET rest == SelectSeq(symbols, LAMBDA s : Sid(s) \notin Range(out_))
    IN [i \in 1..Len(out_) |-> ById(symbols, out_[i])] \o rest

\* lines 188-191: the sorted list, or the list as given when nodes are left
SortResult(symbols, out_) ==
    IF Len(out_) # Len(symbols) THEN symbols
    ELSE [i \in 1..Len(out_) |-> ById(symbols, out_[i])]

\* ---- the emitter (bundle_file, lines 366-432) -----------------------------
NoModule == <<>>
ImportsRegion == <<"Imports">>
AliasesRegion == <<"Aliases">>
MainRegion == <<"main logic">>

SegmentsOfNodes(body) == [i \in 1..Len(body) |-> SourceSegment(body[i].node)]

EntryLibImports(entry_tree) ==
    SegmentsOfNodes(SelectSeq(entry_tree, LAMBDA e : IsLibFromImport(e.node)))

EntryFutureImports(entry_tree) ==
    SegmentsOfNodes(SelectSeq(entry_tree, LAMBDA e : IsFutureImport(e.node)))

HasShebang(entry_source) == entry_source # <<>> /\ entry_source[1].k = "shebang"

\* as ModuleRegions, but opening the region of the next module without
\* closing the one before
ModuleRegionsUnclosed(syms, i, current_module) ==
    Concat([k \in 1..Len(syms) |->
              (IF k = 1 \/ syms[k].module # syms[k - 1].module
                 THEN <<_push_region(syms[k].module)>> ELSE <<>>)
              \o <<syms[k].source, Blank>>])
    \o (IF syms # <<>> THEN <<_pop_region, Blank>> ELSE <<>>)

\* lines 402-414: a region is opened whenever the module of the next symbol
\* differs from the module of the one before
RECURSIVE ModuleRegions(_, _, _)
ModuleRegions(syms, i, current_module) ==
    IF i > Len(syms)
      THEN (IF current_module # NoModule THEN <<_pop_region, Blank>> ELSE <<>>)
      ELSE LET sym == syms[i] IN
           (IF sym.module # current_module
              THEN (IF current_module # NoModule THEN <<_pop_region, Blank>> ELSE <<>>)
                   \o <<_push_region(sym.module)>>
              ELSE <<>>)
           \o <<sym.source, Blank>>
           \o ModuleRegions(syms, i + 1, sym.module)

BundledLib(entry_source, entry_tree, syms, aliases_, future_imports, other_imports) ==
    rstrip(
        (IF HasShebang(entry_source) THEN <<entry_source[1]>> ELSE <<>>)
        \o Concat([i \in 1..Len(EntryLibImports(entry_tree)) |->
                     _comment_block(EntryLibImports(entry_tree)[i])])
        \o <<Blank>>
        \o (IF future_imports # <<>> \/ other_imports # <<>>
              THEN <<_push_region(ImportsRegion)>> \o future_imports \o other_imports
                   \o <<_pop_region, Blank>>
              ELSE <<>>)
        \o ModuleRegions(syms, 1, NoModule)
        \o (IF aliases_ # <<>>
              THEN <<_push_region(AliasesRegion)>> \o aliases_ \o <<_pop_region, Blank>>
              ELSE <<>>))

\* lines 423-429: the entry body without its lib / __future__ imports
EntryBodyLines(entry_source, stripped_entry) ==
    rstrip(IF HasShebang(entry_source) /\ stripped_entry # <<>>
              /\ stripped_entry[1].k = "shebang"
             THEN lstrip(Tail(stripped_entry))
             ELSE stripped_entry)

\* [ok, text]: ok is FALSE when _strip_lib_imports raises
Emit(entry_source, syms, aliases_, mif, mio) ==
    LET entry_tree == ParseBody(entry_source)
        future_imports == _dedup_keep_order(EntryFutureImports(entry_tree) \o mif)
        other_imports == _dedup_keep_order(mio)
        stripped == _strip_lib_imports(entry_source, entry_tree)
    IN IF ~stripped.ok THEN [ok |-> FALSE, text |-> <<>>]
       ELSE [ok |-> TRUE,
             text |-> BundledLib(entry_source, entry_tree, syms, aliases_,
                                 future_imports, other_imports)
                      \o <<Blank, _push_region(MainRegion)>>
                      \o EntryBodyLines(entry_source, stripped.text)
                      \o <<Blank, _pop_region>>]

\* ---- bounded inputs -------------------------------------------------------
\* Statements the file of lib.a may hold: definitions that load another
\* name in a definition-time position (decorator, default, base class) or
\* in the body only, one that loads its own name, plain ones, an assignment,
\* and imports of a third-party module, of another library module and of
\* __future__.  The file of lib.b holds plain definitions.
LibStmts(module) ==
    IF module = LibA
      THEN {Def("f", {}, {}), Def("f", {"g"}, {"g"}), Def("f", {"g"}, {}),
            Def("f", {"f"}, {}),
            Def("g", {}, {}), Def("g", {"f"}, {"f"}), Def("g", {"h"}, {"h"}),
            Def("g", {"f", "g"}, {}),
            Def("h", {}, {}),
            Assign("f", {}),
            Import(Sys), FromImport(LibB, <<Alias("g", None)>>),
            FromImport(Future, <<Alias("annotations", None)>>)}
      ELSE {Def("f", {}, {}), Def("g", {}, {}), Def("h", {}, {})}

\* A line ast.parse rejects (SyntaxError).
Garbage == Line("garbage", <<>>, <<>>)

Parses(text) == \A i \in 1..Len(text) : text[i].k # "garbage"

\* A library file: missing, or a text of at most MaxBody lines, each one
\* statement or a line that does not parse.
MissingFile == [st |-> "missing", text |-> <<>>]
UnreadFile == [st |-> "unread", text |-> <<>>]
Files(module) ==
    {MissingFile}
    \cup {[st |-> "ok", text |-> t] :
            t \in SeqsUpTo({Code(<<n>>) : n \in LibStmts(module)} \cup {Garbage}, MaxBody)}

\* Lines an entry file may hold.
EntryLines ==
    {Code(<<FromImport(LibA, <<Alias("f", None)>>)>>),
     Code(<<FromImport(LibA, <<Alias("f", "y")>>)>>),
     Code(<<FromImport(LibA, <<Alias("g", "g")>>)>>),
     Code(<<FromImport(LibB, <<Alias("f", None)>>)>>),
     Code(<<FromImport(LibB, <<Alias("h", "y")>>)>>),
     Code(<<FromImport(LibA, <<Alias("*", None)>>)>>),
     Code(<<FromImport(LibA, <<Alias("f", None)>>), Other>>),
     Code(<<FromImport(Future, <<Alias("annotations", None)>>)>>),
     Code(<<Import(LibA)>>),
     Code(<<Import(Sys)>>),
     Code(<<Other>>),
     Shebang,
     Garbage}

Entries == SeqsUpTo(EntryLines, MaxEntry)

\* ---- state ----------------------------------------------------------------
VARIABLES
    entry_source,           \* text of the entry file of the current run
    disk,                   \* library files under root, as read so far
    run,                    \* 1: the first bundling, 2: bundling its output
    first_output,           \* the text the first run returned
    pc,                     \* "start", "closure", "sort", "emit", "done", "error"
    error,                  \* the BundleError raised: <<message, what it names...>>
    imported, queue, included, included_names, aliases,
    module_cache, symbol_cache, module_imports_future, module_imports_other,
    deps, indeg, ready, ready_set, out,     \* locals of _toposort_symbols
    output,                 \* the text bundle_file returns
    taken,                  \* the (module, name) of every queue.pop(0) of the run
    parse_calls,            \* calls of _parse_module_source of the run, per module
    written,                \* main: the texts written to the output file / stdout
    status                  \* main: the exit status, NoStatus while running

closure_vars == <<imported, queue, included, included_names, aliases, module_cache,
                  symbol_cache, module_imports_future, module_imports_other,
                  taken, parse_calls>>
sort_vars == <<deps, indeg, ready, ready_set, out>>
run_vars == <<entry_source, run, first_output>>
main_vars == <<written, status>>
vars == <<run_vars, disk, pc, error, closure_vars, sort_vars, output, main_vars>>

NoCache == [x \in {} |-> 0]
NoError == <<>>
NoStatus == -1
NoCalls == [m \in Modules |-> 0]

FreshLocals ==
    /\ imported = <<>> /\ queue = <<>> /\ included = <<>> /\ included_names = {}
    /\ aliases = <<>> /\ module_cache = NoCache /\ symbol_cache = NoCache
    /\ module_imports_future = <<>> /\ module_imports_other = <<>>
    /\ deps = NoCache /\ indeg = NoCache /\ ready = <<>> /\ ready_set = {} /\ out = <<>>
    /\ output = <<>> /\ error = NoError
    /\ taken = <<>> /\ parse_calls = NoCalls
    /\ written = <<>> /\ status = NoStatus

Init ==
    /\ entry_source \in Entries
    /\ disk = [m \in Modules |-> UnreadFile]
    /\ run = 1
    /\ first_output = <<>>
    /\ pc = "start"
    /\ FreshLocals

Raise(msg) == pc' = "error" /\ error' = msg

\* as Start, but without the early return of line 290
StartNoEarlyReturn ==
    /\ pc = "start"
    /\ LET r == _parse_imported_symbols(ParseBody(entry_source)) IN
       IF ~Parses(entry_source)
         THEN /\ Raise(<<"failed to parse entry file">>)
              /\ UNCHANGED <<closure_vars, output>>
       ELSE IF ~r.ok
         THEN /\ Raise(<<"unsupported import">>)
              /\ UNCHANGED <<closure_vars, output>>
       ELSE /\ pc' = "closure"
            /\ imported' = r.imported
            /\ queue' = r.imported
            /\ UNCHANGED <<error, output, included, included_names, aliases, module_cache,
                           symbol_cache, module_imports_future, module_imports_other,
                           taken, parse_calls>>
    /\ UNCHANGED <<run_vars, disk, sort_vars, main_vars>>

\* bundle_file, lines 282-332: parse the entry file and seed the queue
Start ==
    /\ pc = "start"
    /\ LET r == _parse_imported_symbols(ParseBody(entry_source)) IN
       IF ~Parses(entry_source)
         THEN /\ Raise(<<"failed to parse entry file">>)
              /\ UNCHANGED <<closure_vars, output>>
       ELSE IF ~r.ok
         THEN /\ Raise(<<"unsupported import">>)
              /\ UNCHANGED <<closure_vars, output>>
       ELSE IF r.imported = <<>>
         THEN /\ pc' = "done"
              /\ output' = entry_source
              /\ UNCHANGED <<error, closure_vars>>
       ELSE /\ pc' = "closure"
            /\ imported' = r.imported
            /\ queue' = r.imported
            /\ UNCHANGED <<error, output, included, included_names, aliases, module_cache,
                           symbol_cache, module_imports_future, module_imports_other,
                           taken, parse_calls>>
    /\ UNCHANGED <<run_vars, disk, sort_vars, main_vars>>

\* as IsCached, but never finding the module
NeverCached(cache, modname) == FALSE

\* get_module, line 320
IsCached(cache, modname) == modname \in DOMAIN cache

\* as IsFresh, but ignoring included_names
AlwaysFresh(sym, names) == TRUE

\* bundle_file, line 347
IsFresh(sym, names) == sym.name \notin names

\* as Pop, but leaving the item at the head of the queue
PopKeeps(q) == q

\* bundle_file, line 334: the queue after queue.pop(0)
Pop(q) == Tail(q)

\* as Pulled, but enqueuing a loaded name even when it is already included
PulledIgnoringIncluded(node, names, table) ==
    SelectSeq(sorted(_name_loads_in(node)), LAMBDA dep : dep \in DOMAIN table)

\* as Pulled, but enqueuing every loaded name, in the module's table or not
PulledUnchecked(node, names, table) ==
    SelectSeq(sorted(_name_loads_in(node)), LAMBDA dep : dep \notin names)

\* bundle_file, lines 352-358: the names the transitive step enqueues
Pulled(node, names, table) ==
    SelectSeq(sorted(_name_loads_in(node)),
              LAMBDA dep : dep \notin names /\ dep \in DOMAIN table)

\* The model follows the closure loop for at most TakeBound iterations; the
\* loop of the code has no such limit.  ClosureWithinBound (C15) shows that
\* the limit is never what stops it.
TakeBound == MaxEntry + MaxBody + Cardinality(Names) * Cardinality(Names)

\* bundle_file, lines 333-361: one iteration of the closure loop.  file is
\* what _parse_module_source finds under root when the module is not cached.
ClosureStep ==
    /\ pc = "closure"
    /\ queue # <<>>
    /\ Len(taken) < TakeBound
    /\ LET item == Head(queue)
           cached == IsCached(module_cache, item.module)
       IN \E file \in (IF cached \/ disk[item.module].st # "unread"
                         THEN {disk[item.module]} ELSE Files(item.module)) :
          /\ disk' = [disk EXCEPT ![item.module] = file]
          /\ taken' = Append(taken, <<item.module, item.name>>)
          /\ parse_calls' = IF cached THEN parse_calls
                            ELSE [parse_calls EXCEPT ![item.module] = @ + 1]
          /\ IF ~cached /\ file.st = "missing"
               THEN /\ Raise(<<"module not found", item.module>>)
                    /\ UNCHANGED <<imported, queue, included, included_names, aliases,
                                   module_cache, symbol_cache, module_imports_future,
                                   module_imports_other, output>>
             ELSE IF ~cached /\ ~Parses(file.text)
               THEN /\ Raise(<<"failed to parse", item.module>>)
                    /\ UNCHANGED <<imported, queue, included, included_names, aliases,
                                   module_cache, symbol_cache, module_imports_future,
                                   module_imports_other, output>>
             ELSE
               LET tree == IF cached THEN module_cache[item.module] ELSE ParseBody(file.text)
                   lines == _extract_top_level_import_lines(tree)
                   table == _build_symbol_table(tree)
                   key == <<item.module, item.name>>
                   sym == IF key \in DOMAIN symbol_cache THEN symbol_cache[key]
                          ELSE _extract_symbol_def(item.module, item.name,
                                                   tree[table[item.name]])
                   fresh == IsFresh(sym, included_names)
                   names1 == included_names \cup {sym.name}
                   pulled == Pulled(sym.node, names1, table)
               IN
               /\ module_cache' = IF cached THEN module_cache
                                  ELSE TablePut(module_cache, item.module, tree)
               /\ module_imports_future' = IF cached THEN module_imports_future
                                           ELSE module_imports_future \o lines.future
               /\ module_imports_other' = IF cached THEN module_imports_other
                                          ELSE module_imports_other \o lines.other
               /\ IF item.name \notin DOMAIN table
                    THEN /\ Raise(<<"symbol not found", item.module, item.name>>)
                         /\ UNCHANGED <<imported, queue, included, included_names, aliases,
                                        symbol_cache, output>>
                    ELSE /\ symbol_cache' = TablePut(symbol_cache, key, sym)
                         /\ included' = IF fresh THEN Append(included, sym) ELSE included
                         /\ included_names' = IF fresh THEN names1 ELSE included_names
                         /\ queue' = Pop(queue) \o
                                (IF fresh
                                   THEN [i \in 1..Len(pulled) |->
                                           ImportedSymbol(item.module, pulled[i], None)]
                                   ELSE <<>>)
                         /\ aliases' = IF item.asname # None /\ item.asname # item.name
                                         THEN Append(aliases,
                                                Code(<<Assign(item.asname, {item.name})>>))
                                         ELSE aliases
                         /\ UNCHANGED <<imported, pc, error, output>>
    /\ UNCHANGED <<run_vars, sort_vars, main_vars>>

\* _toposort_symbols, lines 146-173: build the graph over the included list
SortStart ==
    /\ pc = "closure"
    /\ queue = <<>>
    /\ pc' = "sort"
    /\ deps' = BuildDeps(included)
    /\ indeg' = BuildIndeg(included)
    /\ ready' = ReadyOf(OrderOf(included), BuildIndeg(included))
    /\ ready_set' = Range(ReadyOf(OrderOf(included), BuildIndeg(included)))
    /\ out' = <<>>
    /\ UNCHANGED <<run_vars, disk, error, closure_vars, output, main_vars>>

\* _toposort_symbols, lines 174-186: one iteration of Kahn's loop
KahnStep ==
    /\ pc = "sort"
    /\ ready # <<>>
    /\ LET sid == Head(ready)
           k == KahnInner(OrderOf(included), 1, sid, Append(out, sid),
                          [deps |-> deps, indeg |-> indeg, ready |-> Tail(ready),
                           ready_set |-> ready_set \ {sid}])
       IN /\ out' = Append(out, sid)
          /\ deps' = k.deps
          /\ indeg' = k.indeg
          /\ ready' = k.ready
          /\ ready_set' = k.ready_set
    /\ UNCHANGED <<run_vars, disk, pc, error, closure_vars, output, main_vars>>

\* _toposort_symbols, lines 188-191, and bundle_file, line 364
SortReturn ==
    /\ pc = "sort"
    /\ ready = <<>>
    /\ pc' = "emit"
    /\ included' = SortResult(included, out)
    /\ UNCHANGED <<run_vars, disk, error, imported, queue, included_names, aliases,
                   module_cache, symbol_cache, module_imports_future,
                   module_imports_other, taken, parse_calls, sort_vars, output,
                   main_vars>>

\* bundle_file, lines 366-432: render the text
EmitStep ==
    /\ pc = "emit"
    /\ LET r == Emit(entry_source, included, aliases, module_imports_future,
                     module_imports_other)
       IN IF r.ok
            THEN pc' = "done" /\ output' = r.text /\ UNCHANGED error
            ELSE Raise(<<"unsupported import form">>) /\ UNCHANGED output
    /\ UNCHANGED <<run_vars, disk, closure_vars, sort_vars, main_vars>>

\* as main, but catching the error without leaving: the empty text is
\* written and 0 returned
mainSwallowsError ==
    /\ pc \in {"done", "error"}
    /\ status = NoStatus
    /\ written' = Append(written, output)
    /\ status' = 0
    /\ UNCHANGED <<run_vars, disk, pc, error, closure_vars, sort_vars, output>>

\* main, lines 456-466: on a BundleError parser.error reports it and exits
\* with status 2; otherwise the text is written and 0 returned
main ==
    /\ pc \in {"done", "error"}
    /\ status = NoStatus
    /\ IF pc = "error"
         THEN written' = written /\ status' = ParserErrorStatus
         ELSE written' = Append(written, output) /\ status' = 0
    /\ UNCHANGED <<run_vars, disk, pc, error, closure_vars, sort_vars, output>>

\* The returned text is bundled again, by a new invocation, as a new entry
\* file; the library files stay as they are.
Rebundle ==
    /\ pc = "done"
    /\ run = 1
    /\ run' = 2
    /\ entry_source' = output
    /\ first_output' = output
    /\ pc' = "start"
    /\ imported' = <<>> /\ queue' = <<>> /\ included' = <<>> /\ included_names' = {}
    /\ aliases' = <<>> /\ module_cache' = NoCache /\ symbol_cache' = NoCache
    /\ module_imports_future' = <<>> /\ module_imports_other' = <<>>
    /\ deps' = NoCache /\ indeg' = NoCache /\ ready' = <<>> /\ ready_set' = {}
    /\ out' = <<>> /\ output' = <<>> /\ error' = NoError
    /\ taken' = <<>> /\ parse_calls' = NoCalls
    /\ written' = <<>> /\ status' = NoStatus
    /\ UNCHANGED disk

Next ==
    \/ Start
    \/ ClosureStep
    \/ SortStart
    \/ KahnStep
    \/ SortReturn
    \/ EmitStep
    \/ main
    \/ Rebundle

Spec == Init /\ [][Next]_vars

\* The interpreter keeps executing the loop it is in: an iteration of the
\* closure loop that can be taken is taken.
LiveSpec == Spec /\ WF_vars(ClosureStep)

\* ---- _toposort_symbols on its own ------------------------------------------
\* The symbols a list handed to _toposort_symbols may hold: definitions of
\* two modules, each with its own line, with headers naming no symbol,
\* another symbol, themselves, or two symbols.
SortPool ==
    {_extract_symbol_def(LibA, "f", [node |-> Def("f", {}, {}), lineno |-> 1]),
     _extract_symbol_def(LibA, "g", [node |-> Def("g", {"f"}, {"f"}), lineno |-> 2]),
     _extract_symbol_def(LibA, "h", [node |-> Def("h", {"f"}, {"f"}), lineno |-> 3]),
     _extract_symbol_def(LibA, "f", [node |-> Def("f", {"g"}, {"g"}), lineno |-> 4]),
     _extract_symbol_def(LibA, "f", [node |-> Def("f", {"f"}, {"f"}), lineno |-> 5]),
     _extract_symbol_def(LibA, "h", [node |-> Def("h", {"f", "g"}, {"f", "g"}), lineno |-> 6]),
     _extract_symbol_def(LibB, "f", [node |-> Def("f", {}, {}), lineno |-> 1]),
     _extract_symbol_def(LibB, "g", [node |-> Def("g", {"h"}, {"h"}), lineno |-> 2])}

SortInputs == SeqsUpTo(SortPool, MaxSyms)

\* The state in which bundle_file calls _toposort_symbols(included), for any
\* list of symbols.
SortInit ==
    /\ included \in SortInputs
    /\ pc = "closure"
    /\ queue = <<>>
    /\ entry_source = <<>>
    /\ disk = [m \in Modules |-> UnreadFile]
    /\ run = 1
    /\ first_output = <<>>
    /\ imported = <<>> /\ included_names = {}
    /\ aliases = <<>> /\ module_cache = NoCache /\ symbol_cache = NoCache
    /\ module_imports_future = <<>> /\ module_imports_other = <<>>
    /\ deps = NoCache /\ indeg = NoCache /\ ready = <<>> /\ ready_set = {} /\ out = <<>>
    /\ output = <<>> /\ error = NoError
    /\ taken = <<>> /\ parse_calls = NoCalls
    /\ written = <<>> /\ status = NoStatus

SortNext ==
    \/ SortStart
    \/ KahnStep
    \/ SortReturn

SortSpec == SortInit /\ [][SortNext]_vars

\* ---- vocabulary of the properties -------------------------------------------
\* the closure loop of the current run has finished without an error
ClosureFinished ==
    imported # <<>> /\ (pc \in {"sort", "emit", "done"} \/ (pc = "closure" /\ queue = <<>>))

\* bundle_file has returned a text the emitter rendered
Bundled == pc = "done" /\ imported # <<>>

\* the list _toposort_symbols has returned
Sorted == imported # <<>> /\ pc \in {"emit", "done"}

FirstOfName(syms, j) == \A k \in 1..(j - 1) : syms[k].name # syms[j].name

\* i -> j: symbol i names symbol j in a definition-time position
EdgeSet(syms) ==
    {e \in (1..Len(syms)) \X (1..Len(syms)) :
        /\ e[1] # e[2]
        /\ syms[e[2]].name \in syms[e[1]].node.dt
        /\ FirstOfName(syms, e[2])}

Compose(R) == R \cup {<<p[1][1], p[2][2]>> : p \in {q \in R \X R : q[1][2] = q[2][1]}}

RECURSIVE Paths(_, _)
Paths(R, n) == IF n = 0 THEN R ELSE Paths(Compose(R), n - 1)

HasCycle(syms) == \E i \in 1..Len(syms) : <<i, i>> \in Paths(EdgeSet(syms), Len(syms))

\* ---- C1 -------------------------------------------------------------------
\* C1: when the definition-time graph over the included symbols has no
\* cycle, every included symbol B that an included symbol A names in a
\* definition-time position (B the first definition of its name, B # A)
\* stands before A in the list _toposort_symbols returns, and B's source
\* stands before A's in the returned text.
FirstLine(text, line) == CHOOSE i \in 1..Len(text) : text[i] = line /\ \A j \in 1..(i - 1) : text[j] # line

OrderingValid ==
    (Sorted /\ ~HasCycle(included)) =>
        \A e \in EdgeSet(included) :
            /\ e[2] < e[1]
            /\ (pc = "done" =>
                  FirstLine(output, included[e[2]].source)
                    < FirstLine(output, included[e[1]].source))

\* a finished run in which a symbol the entry file did not import was pulled
\* in and stands before the imported symbol whose header names it
OrderingWitness ==
    /\ Bundled /\ run = 1
    /\ \E e \in EdgeSet(included) :
          /\ e[2] < e[1]
          /\ \A k \in 1..Len(imported) : imported[k].name # included[e[2]].name
          /\ \E k \in 1..Len(imported) : imported[k].name = included[e[1]].name

\* ---- C2 -------------------------------------------------------------------
\* C2: when the definition-time graph over the included symbols has a cycle,
\* _toposort_symbols returns the list it was given, unchanged, and does not
\* raise.
CycleFallback ==
    [][(pc = "sort" /\ pc' # "sort" /\ HasCycle(included))
          => (pc' = "emit" /\ included' = included)]_vars

\* the sort has returned on a cyclic graph after emitting, first, a symbol
\* that is not first in inclusion order
CycleWitness ==
    /\ pc = "emit" /\ HasCycle(included)
    /\ Len(included) >= 3
    /\ out # <<>> /\ out[1] # Sid(included[1])

\* ---- C3 -------------------------------------------------------------------
\* C3: once the closure loop has finished, for every included definition D
\* of module M and every name that D loads and M's symbol table holds,
\* exactly one included symbol has that name.
InclusionComplete ==
    ClosureFinished =>
        \A i \in 1..Len(included) :
            \A n \in included[i].node.loads \cap
                     DOMAIN _build_symbol_table(module_cache[included[i].module]) :
                Cardinality({j \in 1..Len(included) : included[j].name = n}) = 1

\* a finished closure holding a symbol that no entry import names and that
\* another included symbol of the same module loads
InclusionWitness ==
    /\ ClosureFinished
    /\ \E i, j \in 1..Len(included) :
          /\ i # j
          /\ included[j].name \in included[i].node.loads
          /\ included[j].module = included[i].module
          /\ \A k \in 1..Len(imported) : imported[k].name # included[j].name

\* ---- reading a returned text ----------------------------------------------
\* the lines of the first region of that name, between its two markers
RECURSIVE UpToEndregion(_, _)
UpToEndregion(text, i) ==
    IF i > Len(text) \/ text[i].k \in {"endregion", "region"} THEN <<>>
    ELSE <<text[i]>> \o UpToEndregion(text, i + 1)

RegionLines(text, name) ==
    IF \E i \in 1..Len(text) : text[i] = _push_region(name)
      THEN UpToEndregion(text, FirstLine(text, _push_region(name)) + 1)
      ELSE <<>>

\* the names of the module regions of a text, in order
ModuleRegionNames(text) ==
    LET marks == SelectSeq(text, LAMBDA l :
                    l.k = "region" /\ l.tag \notin {ImportsRegion, AliasesRegion, MainRegion})
    IN [i \in 1..Len(marks) |-> marks[i].tag]

\* the modules of a symbol list, each once, in order of first occurrence
RECURSIVE ModulesInOrder(_, _)
ModulesInOrder(syms, seen) ==
    IF syms = <<>> THEN <<>>
    ELSE IF Head(syms).module \in seen THEN ModulesInOrder(Tail(syms), seen)
    ELSE <<Head(syms).module>> \o ModulesInOrder(Tail(syms), seen \cup {Head(syms).module})

ImportsLibrary(line) ==
    /\ line.k = "code"
    /\ \E j \in 1..Len(line.stmts) :
          /\ line.stmts[j].t \in {"import", "fromimport"}
          /\ line.stmts[j].mod # <<>>
          /\ line.stmts[j].mod[1] = "lib"

\* ---- C4 -------------------------------------------------------------------
\* C4: no import line collected from a loaded library module imports the
\* library namespace, and the text of a first run holds no uncommented
\* import of the library namespace.
ImportsSelfContained ==
    /\ \A i \in 1..Len(module_imports_other) : ~ImportsLibrary(module_imports_other[i])
    /\ (Bundled /\ run = 1) => \A i \in 1..Len(output) : ~ImportsLibrary(output[i])

\* ---- C5 -------------------------------------------------------------------
\* C5: a run on an entry file that holds a top-level `import lib...` ends
\* with the unsupported-import error and returns no text.
EntryImportsWholeModule ==
    \E i \in 1..Len(entry_source) :
        /\ entry_source[i].k = "code"
        /\ \E j \in 1..Len(entry_source[i].stmts) :
              /\ entry_source[i].stmts[j].t = "import"
              /\ entry_source[i].stmts[j].mod[1] = "lib"

WholeModuleImportRejected ==
    (run = 1 /\ Parses(entry_source) /\ EntryImportsWholeModule /\ pc \in {"done", "error"}) =>
        /\ pc = "error"
        /\ error \in {<<"unsupported import form">>, <<"unsupported import">>}
        /\ output = <<>>

\* ---- C6 -------------------------------------------------------------------
\* C6: a run on an entry file that parses and is without any top-level `from lib... import`
\* returns the entry text as it is, in one step: no module is loaded, no
\* symbol included, and the closure, the sort and the emitter are not entered.
EntryHasLibFromImport ==
    \E i \in 1..Len(entry_source) :
        /\ entry_source[i].k = "code"
        /\ \E j \in 1..Len(entry_source[i].stmts) :
              /\ entry_source[i].stmts[j].t = "fromimport"
              /\ entry_source[i].stmts[j].mod[1] = "lib"

NoOpLaw ==
    (Parses(entry_source) /\ ~EntryHasLibFromImport /\ pc # "start") =>
        /\ pc = "done"
        /\ output = entry_source
        /\ module_cache = NoCache /\ symbol_cache = NoCache
        /\ included = <<>> /\ queue = <<>>
        /\ (run = 1 => \A m \in Modules : disk[m] = UnreadFile)

\* a first run that returned a two-line entry file holding a whole-module
\* import and no `from lib... import`
NoOpWitness ==
    /\ pc = "done" /\ run = 1
    /\ ~EntryHasLibFromImport
    /\ Len(entry_source) = 2
    /\ \E i \in 1..2 : entry_source[i].k = "code" /\ entry_source[i].stmts[1].t = "import"
    /\ output = entry_source

\* ---- C7 -------------------------------------------------------------------
\* C7: bundling the text a run returned returns that text again.
Idempotent ==
    (run = 2 /\ pc \in {"done", "error"}) => (pc = "done" /\ output = first_output)

\* ---- C8 -------------------------------------------------------------------
\* C8: when the closure has resolved a name in two different modules, the
\* definitions of both modules are in the included list.
IsIncluded(module, name) ==
    \E i \in 1..Len(included) : included[i].module = module /\ included[i].name = name

DistinctIdentity ==
    ClosureFinished =>
        \A k1, k2 \in DOMAIN symbol_cache :
            (k1[2] = k2[2] /\ k1[1] # k2[1]) => IsIncluded(k1[1], k1[2])

\* ---- C9 -------------------------------------------------------------------
\* C9: in the text of a first run, the Aliases region holds `y = x` for every
\* entry import `x as y` with y # x and no other line, and the definition of
\* x in the module it is imported from is included, and emitted, once.
IsAliasing(item) == item.asname # None /\ item.asname # item.name

AliasLine(item) == Code(<<Assign(item.asname, {item.name})>>)

AliasCorrect ==
    (Bundled /\ run = 1) =>
        /\ \A k \in 1..Len(imported) :
              IsAliasing(imported[k]) =>
                /\ AliasLine(imported[k]) \in Range(RegionLines(output, AliasesRegion))
                /\ Cardinality({i \in 1..Len(included) :
                        /\ included[i].module = imported[k].module
                        /\ included[i].name = imported[k].name}) = 1
                /\ \E i \in 1..Len(included) :
                        /\ included[i].module = imported[k].module
                        /\ included[i].name = imported[k].name
                        /\ Count(output, included[i].source) = 1
        /\ \A l \in Range(RegionLines(output, AliasesRegion)) :
              \E k \in 1..Len(imported) : IsAliasing(imported[k]) /\ l = AliasLine(imported[k])

\* ---- C10 ------------------------------------------------------------------
\* C10: the text of a first run has one region per module of the included
\* symbols, in the order of the modules' first symbols, and the region of a
\* module holds the source of every included symbol of that module.
OneRegionPerModule ==
    (Bundled /\ run = 1) =>
        /\ ModuleRegionNames(output) = ModulesInOrder(included, {})
        /\ \A i \in 1..Len(included) :
              included[i].source \in Range(RegionLines(output, included[i].module))

\* ---- C11 ------------------------------------------------------------------
\* The symbol table of a module as the closure loop sees it on disk d.
TableOnDisk(d, module) == _build_symbol_table(ParseBody(d[module].text))

\* The items of the queue that the transitive step appended: the entry
\* imports are consumed from the front, one per item taken.
TransitiveItems ==
    {queue[i] : i \in {j \in 1..Len(queue) : j + Len(taken) > Len(imported)}}

\* C11: a closure step whose item names a symbol absent from the table of its
\* (readable, parsing) module raises 'symbol not found' with that module and
\* that symbol and no text is returned; every item the transitive step has
\* enqueued is in the table of its cached module, and the item a 'symbol not
\* found' error names is therefore always one of the entry imports.
UnresolvedSymbolFails ==
    /\ [](pc = "closure" =>
            \A it \in TransitiveItems :
                /\ it.module \in DOMAIN module_cache
                /\ it.name \in DOMAIN _build_symbol_table(module_cache[it.module]))
    /\ [][(pc = "closure" /\ queue # <<>>) =>
            /\ (/\ disk'[Head(queue).module].st = "ok"
                /\ Parses(disk'[Head(queue).module].text)
                /\ Head(queue).name \notin DOMAIN TableOnDisk(disk', Head(queue).module))
               => /\ pc' = "error"
                  /\ error' = <<"symbol not found", Head(queue).module, Head(queue).name>>
                  /\ output' = <<>>
            /\ (pc' = "error" /\ error'[1] = "symbol not found")
               => Len(taken') <= Len(imported)]_vars

UnresolvedSymbolWitness ==
    /\ pc = "error"
    /\ error = <<"symbol not found", LibA, "g">>
    /\ output = <<>>
    /\ Len(included) > 0

\* ---- C12 ------------------------------------------------------------------
\* C12: once main has ended, either bundle_file raised an error, the status
\* is non-zero and nothing was written, or bundle_file returned, the status
\* is 0 and exactly the returned text was written; nothing is written before.
AllOrNothing ==
    /\ status = NoStatus => written = <<>>
    /\ status # NoStatus =>
          IF pc = "error"
            THEN status # 0 /\ written = <<>> /\ output = <<>>
            ELSE pc = "done" /\ status = 0 /\ written = <<output>>
    /\ pc = "error" =>
          error[1] \in {"module not found", "failed to parse", "failed to parse entry file",
                        "symbol not found", "unsupported import form", "unsupported import"}

AllOrNothingWitness ==
    /\ status = ParserErrorStatus
    /\ pc = "error"
    /\ error = <<"failed to parse", LibA>>
    /\ Len(included) > 0
    /\ written = <<>>

\* ---- C13 ------------------------------------------------------------------
\* The statements of a parsed module that define name n at top level.
DefinersOf(tree, n) ==
    {i \in 1..Len(tree) : tree[i].node.t \in {"def", "assign"} /\ tree[i].node.name = n}

\* C13: in every module the run has loaded, the symbol table maps each name
\* to the first top-level statement defining it.
FirstDefinitionWins ==
    \A m \in DOMAIN module_cache :
        LET table == _build_symbol_table(module_cache[m]) IN
        \A n \in DOMAIN table :
            \A i \in DefinersOf(module_cache[m], n) : table[n] <= i

\* ---- C14 ------------------------------------------------------------------
\* The import lines get_module collects for module m once it is cached.
CollectedOf(m) ==
    IF m \in DOMAIN module_cache
      THEN _extract_top_level_import_lines(module_cache[m]).future
           \o _extract_top_level_import_lines(module_cache[m]).other
      ELSE <<>>

\* C14: within a run _parse_module_source is called at most once per module,
\* a cached module has been parsed exactly once and its record never changes
\* while the run lasts, and the collected import lists hold the import lines
\* of each cached module exactly once.
ModuleCacheOnce ==
    /\ [](\A m \in Modules :
            /\ parse_calls[m] <= 1
            /\ m \in DOMAIN module_cache => parse_calls[m] = 1)
    /\ [](\A l \in Range(module_imports_future \o module_imports_other)
                   \cup Range(CollectedOf(LibA) \o CollectedOf(LibB)) :
            Count(module_imports_future \o module_imports_other, l)
              = Count(CollectedOf(LibA) \o CollectedOf(LibB), l))
    /\ [][run' = run =>
            \A m \in DOMAIN module_cache :
                m \in DOMAIN module_cache' /\ module_cache'[m] = module_cache[m]]_vars

ModuleCacheWitness ==
    /\ pc = "done"
    /\ Len(taken) >= 2
    /\ taken[1][1] = LibA
    /\ taken[2][1] = LibA
    /\ parse_calls[LibA] = 1
    /\ module_imports_other # <<>>

\* ---- C15 ------------------------------------------------------------------
\* A symbol that loads its own name, and two that load each other.
SelfReferring(syms) ==
    \E i \in 1..Len(syms) : syms[i].name \in _name_loads_in(syms[i].node)

MutuallyReferring(syms) ==
    \E i, j \in 1..Len(syms) :
        /\ i # j
        /\ syms[j].name \in _name_loads_in(syms[i].node)
        /\ syms[i].name \in _name_loads_in(syms[j].node)

\* The iteration limit of the model is not what ends the closure loop.
ClosureWithinBound == (pc = "closure" /\ queue # <<>>) => Len(taken) < TakeBound

\* C15: the closure loop, once entered, ends: the queue becomes empty or an
\* error is raised, and it is never the iteration limit of the model that
\* stops it.
ClosureTerminates ==
    /\ []ClosureWithinBound
    /\ (pc = "closure") ~> (pc = "error" \/ queue = <<>>)

ClosureTerminatesWitness ==
    /\ pc = "closure"
    /\ queue = <<>>
    /\ SelfReferring(included)
    /\ MutuallyReferring(included)

\* ---- C16 ------------------------------------------------------------------
\* The (module, name) pairs a pair leads to: the names its definition loads
\* that the table of its module defines.
LoadedPairs(pr) ==
    IF /\ disk[pr[1]].st = "ok"
       /\ Parses(disk[pr[1]].text)
       /\ pr[2] \in DOMAIN TableOnDisk(disk, pr[1])
      THEN LET tree == ParseBody(disk[pr[1]].text)
               table == _build_symbol_table(tree)
           IN {<<pr[1], d>> : d \in _name_loads_in(tree[table[pr[2]]].node) \cap DOMAIN table}
      ELSE {}

RECURSIVE ReachFrom(_, _)
ReachFrom(P, k) ==
    IF k = 0 THEN P ELSE ReachFrom(P \cup UNION {LoadedPairs(pr) : pr \in P}, k - 1)

\* The (module, name) pairs reachable from the entry imports.
ReachablePairs ==
    ReachFrom({<<imported[i].module, imported[i].name>> : i \in 1..Len(imported)},
              Cardinality(Modules) * Cardinality(Names))

\* C16, as stated: when the closure loop has ended, the items taken number at
\* most the reachable (module, name) pairs, and no pair was taken twice.
WorkBound ==
    ClosureFinished =>
        /\ Len(taken) <= Cardinality(ReachablePairs)
        /\ \A pr \in Range(taken) : Count(taken, pr) = 1

\* The names other than its own that an included symbol loads and that the
\* table of its module defines: what the transitive step can enqueue for it.
OtherLoads(s) ==
    (_name_loads_in(s.node) \cap DOMAIN _build_symbol_table(module_cache[s.module]))
      \ {s.name}

RECURSIVE SumOtherLoads(_, _)
SumOtherLoads(syms, i) ==
    IF i > Len(syms) THEN 0
    ELSE Cardinality(OtherLoads(syms[i])) + SumOtherLoads(syms, i + 1)

\* C16, amended: the items taken number at most the entry imports plus, for
\* each included symbol, the other names it loads that its module defines;
\* a pair may be taken more than once, but no name is included twice.
WorkBoundAmended ==
    imported # <<>> =>
        /\ Len(taken) <= Len(imported) + SumOtherLoads(included, 1)
        /\ \A i, j \in 1..Len(included) :
              included[i].name = included[j].name => i = j

WorkBoundWitness ==
    /\ ClosureFinished
    /\ \E pr \in Range(taken) : Count(taken, pr) > 1
    /\ Len(taken) > Cardinality(ReachablePairs)
    /\ Len(taken) = Len(imported) + SumOtherLoads(included, 1)
    /\ SumOtherLoads(included, 1) > 0

\* ---- C17 ------------------------------------------------------------------
\* The ids of s stand in inclusion order: s is what is left of order_ from
\* position i on when some of its elements are dropped.
RECURSIVE SubsequenceFrom(_, _, _)
SubsequenceFrom(s, order_, i) ==
    IF s = <<>> THEN TRUE
    ELSE IF i > Len(order_) THEN FALSE
    ELSE IF order_[i] = Head(s) THEN SubsequenceFrom(Tail(s), order_, i + 1)
    ELSE SubsequenceFrom(s, order_, i + 1)

InInclusionOrder(s, order_) == SubsequenceFrom(s, order_, 1)

\* C17: the ready queue starts as the zero in-degree symbols in inclusion
\* order; each step of Kahn's loop emits the head of the queue and appends
\* behind the rest, in inclusion order, the symbols whose in-degree it
\* brought to zero; and when no included symbol has a definition-time
\* dependency on another, the list returned is the list given.
StableFifo ==
    /\ [][(pc = "closure" /\ pc' = "sort") =>
            /\ InInclusionOrder(ready', OrderOf(included))
            /\ \A i \in 1..Len(included) :
                  Count(ready', Sid(included[i]))
                    = IF indeg'[Sid(included[i])] = 0
                        THEN Count(OrderOf(included), Sid(included[i])) ELSE 0]_vars
    /\ [][(pc = "sort" /\ pc' = "sort") =>
            /\ out' = Append(out, Head(ready))
            /\ Len(ready') >= Len(ready) - 1
            /\ SubSeq(ready', 1, Len(ready) - 1) = Tail(ready)
            /\ LET added == SubSeq(ready', Len(ready), Len(ready')) IN
               /\ InInclusionOrder(added, OrderOf(included))
               /\ \A i \in 1..Len(added) :
                     /\ indeg[added[i]] > 0
                     /\ indeg'[added[i]] = 0
                     /\ Count(added, added[i]) = 1]_vars
    /\ [][(pc = "sort" /\ pc' = "emit" /\ EdgeSet(included) = {}) =>
            included' = included]_vars

\* two symbols, given before the symbol both depend on, entered the ready
\* queue on the emission of that symbol
StableFifoWitness ==
    /\ pc = "sort"
    /\ Len(included) = 3
    /\ out = <<Sid(included[3])>>
    /\ ready = <<Sid(included[1]), Sid(included[2])>>
    /\ Sid(included[1]) # Sid(included[2])

\* ---- C20 ------------------------------------------------------------------
IsPermutation(s, t) ==
    /\ Len(s) = Len(t)
    /\ \A x \in Range(s) \cup Range(t) : Count(s, x) = Count(t, x)

\* C20: the list _toposort_symbols returns is a permutation of the list it
\* was given, on the sorted path and on the fallback path; during Kahn's loop
\* the in-degree of every node is the size of its remaining dependency set
\* and not negative, no node depends on itself and every dependency is a
\* symbol of the list.
SortIsPermutation ==
    /\ [][(pc = "sort" /\ pc' = "emit") => IsPermutation(included', included)]_vars
    /\ [](pc = "sort" =>
            \A sid \in Range(OrderOf(included)) :
                /\ indeg[sid] = Cardinality(deps[sid])
                /\ indeg[sid] >= 0
                /\ sid \notin deps[sid]
                /\ deps[sid] \subseteq Range(OrderOf(included)))

\* the sort has returned three symbols, all emitted by Kahn's loop, some of
\* them depending on others
SortIsPermutationWitness ==
    /\ pc = "emit"
    /\ Len(included) = 3
    /\ Len(out) = 3
    /\ EdgeSet(included) # {}

\* ---- C18 ------------------------------------------------------------------
\* The statements of a text, in order.
StatementsOf(text) == [i \in 1..Len(ParseBody(text)) |-> ParseBody(text)[i].node]

\* The entry file's own logic: its statements other than `from lib... import`
\* and `from __future__ import`.
EntryLogic(text) ==
    SelectSeq(StatementsOf(text), LAMBDA n : ~IsLibFromImport(n) /\ ~IsFutureImport(n))

\* The lines between the main-logic start marker the emitter wrote and the
\* end marker that closes the text.
MainLogicOf(text) ==
    IF \E i \in 1..Len(text) : text[i] = _push_region(MainRegion)
      THEN SubSeq(text, FirstLine(text, _push_region(MainRegion)) + 1, Len(text) - 1)
      ELSE <<>>

\* C18: in a bundled text the statements of the main-logic region are the
\* entry file's own statements, in their order and as written, those that
\* share a line with a removed import included.
EntryLogicPreserved ==
    Bundled => StatementsOf(MainLogicOf(output)) = EntryLogic(entry_source)

\* ---- C19 ------------------------------------------------------------------
\* The region markers the emitter wrote: those up to the main-logic start
\* marker, and the last line of the text.
EmittedMarkers(text) ==
    LET main_at == FirstLine(text, _push_region(MainRegion))
    IN SelectSeq(SubSeq(text, 1, main_at), LAMBDA l : l.k \in {"region", "endregion"})
       \o <<text[Len(text)]>>

\* Imports first, module regions next, Aliases after them, main logic last.
RegionRank(tag) ==
    IF tag = ImportsRegion THEN 1
    ELSE IF tag = AliasesRegion THEN 3
    ELSE IF tag = MainRegion THEN 4
    ELSE 2

\* A text whose regions are well formed: it has a main-logic region, which
\* is the last one; start and end markers alternate, so that no region is
\* nested or left open; the regions stand in the order Imports, modules,
\* Aliases, main logic, with Imports, Aliases and main logic at most once.
WellFormedRegions(text) ==
    /\ \E i \in 1..Len(text) : text[i] = _push_region(MainRegion)
    /\ LET marks == EmittedMarkers(text) IN
       /\ Len(marks) % 2 = 0
       /\ \A i \in 1..Len(marks) :
             marks[i].k = (IF i % 2 = 1 THEN "region" ELSE "endregion")
       /\ marks[Len(marks) - 1] = _push_region(MainRegion)
       /\ \A i, j \in 1..Len(marks) :
             (i < j /\ i % 2 = 1 /\ j % 2 = 1) =>
                /\ RegionRank(marks[i].tag) <= RegionRank(marks[j].tag)
                /\ RegionRank(marks[i].tag) # 2 => marks[i].tag # marks[j].tag

\* C19, as stated: every text bundle_file returns has well-formed regions.
RegionStructure == pc = "done" => WellFormedRegions(output)

\* C19, amended: every text bundle_file returns for an entry file that
\* imports from the library has well-formed regions.
RegionStructureBundled == Bundled => WellFormedRegions(output)

\* a bundled text with an Imports region, the regions of two modules, an
\* Aliases region and the main logic
RegionStructureWitness ==
    /\ Bundled
    /\ run = 1
    /\ Len(EmittedMarkers(output)) = 10
    /\ WellFormedRegions(output)

====
